---- MODULE Spec2Model ----
(***************************************************************************)
(* Pongverse learning core: the prioritized replay buffer and the DQN      *)
(* agent of src/ai/dqn_agent.py, as a state machine.                       *)
(*                                                                         *)
(* Number representation (TLA+ has integers only):                         *)
(*   - a priority is an integer count of 1e-6 (priority_epsilon), so the   *)
(*     1.0 of push is PriorityOne = 1000000;                               *)
(*   - a Q value is an integer; a target (expected_q_values) is kept in    *)
(*     hundredths, so gamma = 0.99 is the integer 99;                      *)
(*   - epsilon is kept in thousandths (1.0 = 1000, 0.01 = 10, 0.995 = 995);*)
(*   - an importance weight is kept as the rational [num, den] that the    *)
(*     code raises to the power alpha * beta (see ISWeights).              *)
(* Python indices are 0-based; a Python list is a TLA+ sequence, so the    *)
(* list element i is seq[i + 1]; a numpy array is a function on 0..n-1.    *)
(***************************************************************************)
EXTENDS Integers, Sequences, FiniteSets, TLC

\* ---------------------------------------------------------------- bounds
MaxCapacity == 2     \* capacities 1..MaxCapacity (DQNConfig.buffer_size scaled down)
MaxPushes == 3       \* push calls in one run
MaxBatch == 2        \* batch sizes 0..MaxBatch
MaxUpdates == 1      \* (index, priority) pairs in one update_priorities call
target_update == 2  \* DQNConfig.target_update scaled down

\* ------------------------------------------------------- DQNConfig values
action_dim == 3
gamma == 99
epsilon_start == 1000
epsilon_end == 10
epsilon_decay == 995
PriorityOne == 1000000
\* config.batch_size (64 in DQNConfig), scaled down to the largest batch
batch_size == MaxBatch

\* Observations are abstract ids (a state vector float[state_dim]).
States == {0, 1}
Actions == 0 .. (action_dim - 1)

Transition(s, a, r, ns, d) ==
  [state |-> s, action |-> a, reward |-> r, next_state |-> ns, done |-> d]

\* The transitions the environment hands to push: a terminal one with
\* reward +1 and a non-terminal one with reward 0.
TransitionInputs ==
  { Transition(0, 0, 1, 1, TRUE), Transition(1, 2, 0, 0, FALSE) }

\* Priorities a caller passes to update_priorities (already floored, > 0).
PriorityInputs == { PriorityOne, 2 * PriorityOne }

\* Parameter settings of a DQNetwork: theta[s + 1][a + 1] is the network's
\* output for observation s and action a.
ParamSettings ==
  { << <<0, 2, 1>>, <<1, 1, 3>> >>,
    << <<2, 0, 0>>, <<0, 1, 1>> >> }

\* The setting the random initialisation of DQNetwork(config) produced.
InitialParams == << <<0, 2, 1>>, <<1, 1, 3>> >>

VARIABLES
  capacity,      \* PrioritizedReplayBuffer.capacity (= config.buffer_size)
  buffer,        \* PrioritizedReplayBuffer.buffer
  priorities,    \* PrioritizedReplayBuffer.priorities
  position,      \* PrioritizedReplayBuffer.position
  policy_net,    \* DQNAgent.policy_net parameters
  target_net,    \* DQNAgent.target_net parameters
  epsilon,       \* DQNAgent.epsilon
  steps,         \* DQNAgent.steps
  call,          \* the last call: its arguments, how it ended, what it computed
  pushed,        \* history: every transition pushed so far, in order
  optimizer,     \* DQNAgent.optimizer state (the number of Adam steps taken)
  checkpoint,    \* the file save_model wrote, NoFile before any save
  rounds,        \* rounds of test_epsilon_decay carried out
  \* ---- src/pong_ai.py
  q_table,       \* QAgent.q_table: the cells written so far (all others are 0)
  q_epsilon,     \* QAgent.epsilon, in units of 1/QOne
  last_state,    \* QAgent.last_state
  last_action,   \* QAgent.last_action
  qcall,         \* the last call on the QAgent: arguments, outcome, value
  q_calls,       \* number of update and decay_epsilon calls made so far
  ball,          \* PongGame.ball: x, y, vx, vy in thousandths
  left_paddle,   \* PongGame.left_paddle.y, in thousandths
  right_paddle,  \* PongGame.right_paddle.y, in thousandths
  player_score,  \* PongGame.player_score
  ai_score,      \* PongGame.ai_score
  phase,         \* "menu", "running", or "crashed" once an exception left main()
  tick,          \* the last PongGame.update: what it computed and how it ended
  ticks,         \* passes of the game loop made so far
  \* ---- src/game/engine.py
  game_state,    \* GameEngine.state, the GameState record (lengths in thousandths)
  config_paddle_height,  \* GameEngine.config.paddle_height (thousandths)
  active_powerups,       \* PowerUpManager.active_powerups, in insertion order
  special_mode_active,   \* GameEngineWithPowerUps.special_mode_active
  ecall,         \* the last call on the engine and what it computed
  frames         \* update calls made so far

configVars == <<capacity>>
storeVars == <<buffer, priorities, position>>
agentVars == <<policy_net, target_net, epsilon, steps, optimizer>>
\* what no method of the buffer or the agent touches, save_model excepted
dqnVars == <<configVars, storeVars, agentVars, call, pushed, checkpoint, rounds>>
qVars == <<q_table, q_epsilon, last_state, last_action, qcall, q_calls>>
pongVars == <<ball, left_paddle, right_paddle, player_score, ai_score, phase,
             tick, ticks>>
powerVars == <<config_paddle_height, active_powerups, special_mode_active>>
engineVars == <<game_state, ecall, frames, powerVars>>
restVars == <<checkpoint, rounds, qVars, pongVars, engineVars>>
vars == <<capacity, buffer, priorities, position,
          policy_net, target_net, epsilon, steps, call, pushed,
          optimizer, checkpoint, rounds, qVars, pongVars, engineVars>>

\* ---------------------------------------------------------------- helpers
Min(a, b) == IF a <= b THEN a ELSE b
Max(a, b) == IF a >= b THEN a ELSE b
Abs(x) == IF x < 0 THEN -x ELSE x
MaxOf(S) == CHOOSE x \in S : \A y \in S : y <= x
MinOf(S) == CHOOSE x \in S : \A y \in S : x <= y

\* The record of a call. outcome is "returned" or the name of the exception
\* raised; rtype is the Python type of the returned value.
CallRecord(op, arg, outcome, rtype, value) ==
  [op |-> op, arg |-> arg, outcome |-> outcome, rtype |-> rtype,
   value |-> value, batch |-> <<>>, indices |-> <<>>, weights |-> <<>>,
   expected_q_values |-> <<>>]

\* ------------------------------------------- PrioritizedReplayBuffer.push
PushPriority_AlwaysOne(prios, buf) == PriorityOne

PushPriority_NoDefault(prios, buf) == MaxOf({ prios[i] : i \in DOMAIN prios })

\* max_priority = max(self.priorities) if self.buffer else 1.0
\* (the maximum runs over the whole priorities array, unused slots included).
PushPriority(prios, buf) ==
  IF buf # <<>> THEN MaxOf({ prios[i] : i \in DOMAIN prios }) ELSE PriorityOne

PushBuffer_AlwaysAppend(buf, pos, cap, t) == Append(buf, t)

\* append while below capacity, else overwrite the slot at the cursor
PushBuffer(buf, pos, cap, t) ==
  IF Len(buf) < cap THEN Append(buf, t) ELSE [buf EXCEPT ![pos + 1] = t]

NextPosition(pos, cap) == (pos + 1) % cap

\* self.buffer[self.position] = Transition(*args) on a list that has no slot
\* at the cursor raises IndexError: the case of capacity 0, where
\* len(self.buffer) < self.capacity is false for the empty list.
PushRaises(buf, pos, cap) == ~(Len(buf) < cap) /\ pos \notin 0 .. (Len(buf) - 1)

Push(t) ==
  /\ Len(pushed) < MaxPushes
  /\ IF PushRaises(buffer, position, capacity)
       THEN /\ call' = CallRecord("push", <<t>>, "IndexError", "", 0)
            /\ UNCHANGED <<storeVars, pushed>>
       ELSE /\ buffer' = PushBuffer(buffer, position, capacity, t)
            /\ priorities' =
                 [priorities EXCEPT ![position] = PushPriority(priorities, buffer)]
            /\ position' = NextPosition(position, capacity)
            /\ pushed' = Append(pushed, t)
            /\ call' = CallRecord("push", <<t>>, "returned", "None", 0)
  /\ UNCHANGED <<restVars, configVars, agentVars>>

\* -------------------------------- PrioritizedReplayBuffer.update_priorities
\* for idx, priority in zip(indices, priorities): self.priorities[idx] = priority
RECURSIVE WritePriorities(_, _)
WritePriorities(prios, pairs) ==
  IF pairs = <<>> THEN prios
  ELSE WritePriorities([prios EXCEPT ![Head(pairs)[1]] = Head(pairs)[2]], Tail(pairs))

\* The argument lists a caller passes: indices of held transitions (what
\* sample returned) and floored priorities.
UpdateInputs ==
  UNION { [1 .. n -> (0 .. (Len(buffer) - 1)) \X PriorityInputs] : n \in 1 .. MaxUpdates }

UpdatePriorities(pairs) ==
  /\ priorities' = WritePriorities(priorities, pairs)
  /\ call' = CallRecord("update_priorities", <<>>, "returned", "None", 0)
  /\ UNCHANGED <<restVars, configVars, agentVars, buffer, position, pushed>>

\* ----------------------------------------- PrioritizedReplayBuffer.sample
\* if len(self.buffer) == 0: raise ValueError("Cannot sample from empty buffer")
EmptyBufferException_IndexError == "IndexError"

EmptyBufferException == "ValueError"

\* priorities = self.priorities[:len(self.buffer)]
HeldPriorities(prios, n) == [i \in 0 .. (n - 1) |-> prios[i]]

\* probabilities = priorities ** alpha; probabilities /= probabilities.sum()
\* x ** alpha (alpha = 0.6 > 0) is 0 at 0 and strictly increasing on x >= 0,
\* so index i has a non-zero probability exactly when its priority is > 0.
\* When every held priority is 0 the sum is 0 and the division gives NaN.
Support(p) == { i \in DOMAIN p : p[i] > 0 }

\* indices = np.random.choice(len(self.buffer), batch_size, p=probabilities):
\* batch_size draws with replacement among the indices of non-zero probability.
IndexDraws(p, B) == [1 .. B -> Support(p)]

NormalizingPriority_Max(p, indices) ==
  MaxOf({ p[indices[k]] : k \in DOMAIN indices })

\* weights.max() is the weight of the drawn index of smallest probability,
\* that is of smallest priority: (N * P(i)) ** (-beta) decreases in P(i).
NormalizingPriority(p, indices) ==
  MinOf({ p[indices[k]] : k \in DOMAIN indices })

\* weights = (N * probabilities[indices]) ** (-beta); weights /= weights.max()
\* With P(i) = p_i^alpha / S:  weights[j] / weights[k] = (p_k / p_j)^(alpha*beta),
\* so weights[j] = (pmin / p_j)^(alpha*beta) where pmin is the priority that
\* weights.max() belongs to. The model keeps the rational pmin / p_j as
\* [num, den]; alpha * beta = 0.24 > 0, so the weight is <= 1 (= 1) exactly
\* when num <= den (num = den).
ISWeights(p, indices) ==
  [j \in DOMAIN indices |->
     [num |-> NormalizingPriority(p, indices), den |-> p[indices[j]]]]

\* batch = [self.buffer[idx] for idx in indices]
Batch(buf, indices) == [j \in DOMAIN indices |-> buf[indices[j] + 1]]

SampleReturn(op, arg, buf, p, indices) ==
  [CallRecord(op, arg, "returned", "tuple", 0) EXCEPT
     !.batch = Batch(buf, indices),
     !.indices = indices,
     !.weights = ISWeights(p, indices)]

Sample(B) ==
  /\ IF Len(buffer) = 0
       THEN call' = CallRecord("sample", <<B>>, EmptyBufferException, "", 0)
     ELSE IF Support(HeldPriorities(priorities, Len(buffer))) = {}
       \* NaN probabilities: np.random.choice raises ValueError
       THEN call' = CallRecord("sample", <<B>>, "ValueError", "", 0)
     ELSE \E indices \in IndexDraws(HeldPriorities(priorities, Len(buffer)), B) :
            IF B = 0
              \* weights.max() of an empty array raises ValueError
              THEN call' = CallRecord("sample", <<B>>, "ValueError", "", 0)
              ELSE call' = SampleReturn("sample", <<B>>, buffer,
                             HeldPriorities(priorities, Len(buffer)), indices)
  /\ UNCHANGED <<restVars, configVars, agentVars, storeVars, pushed>>

\* ---------------------------------------------------------------- module
\* The names bound in the module namespace of dqn_agent.py by its imports
\* and top-level statements. There is no "import torch.nn.functional as F".
ModuleNames ==
  { "Tuple", "List", "Optional", "Dict", "np", "torch", "nn", "optim",
    "dataclass", "namedtuple", "random", "logging", "SummaryWriter", "logger",
    "Transition", "State", "Action", "DQNConfig", "PrioritizedReplayBuffer",
    "DQNetwork", "DQNAgent" }

\* Looking up a global name that is not bound raises NameError.
NameIsBound(name) == name \in ModuleNames

\* The methods of the class the name DQNAgent is bound to once the module is
\* loaded: the second "class DQNAgent:" statement rebinds the name, and that
\* class body defines these two methods only.
DQNAgentMethods == { "__init__", "optimize_model" }

\* -------------------------------------------------------------- DQNetwork
\* forward: one value per action for observation s
Forward(theta, s) == theta[s + 1]

\* q_values.max(1)[1]: the index of the largest value, the lowest on a tie
ArgMax(q) ==
  MinOf({ a \in Actions : \A b \in Actions : q[b + 1] <= q[a + 1] })

\* ------------------------------------------------- DQNAgent.select_action
SelectAction(s) ==
  /\ IF "select_action" \notin DQNAgentMethods
       THEN call' = CallRecord("select_action", <<s>>, "AttributeError", "", 0)
       ELSE \E explore \in BOOLEAN, a \in Actions :
              \* random.random() is in [0, 1): it is < epsilon only if
              \* epsilon > 0, and >= epsilon only if epsilon < 1.0
              /\ explore => epsilon > 0
              /\ ~explore => (epsilon < 1000 /\ a = ArgMax(Forward(policy_net, s)))
              /\ call' = CallRecord("select_action", <<s>>, "returned", "int", a)
  /\ UNCHANGED <<restVars, configVars, agentVars, storeVars, pushed>>

\* ------------------------------------------------ DQNAgent.optimize_model
TooFewTransitions_OnlyEmpty(n, b) == n = 0

\* if len(self.memory.buffer) < self.config.batch_size: return 0.0
TooFewTransitions(n, b) == n < b

\* next_actions = self.policy_net(next_state_batch).max(1)[1].unsqueeze(1)
\* next_state_values = self.target_net(next_state_batch).gather(1, next_actions)
\* (shape [B, 1]: one value per sample)
NextStateValues(pol, tgt, batch) ==
  [i \in DOMAIN batch |->
     Forward(tgt, batch[i].next_state)[ArgMax(Forward(pol, batch[i].next_state)) + 1]]

Float(b) == IF b THEN 1 ELSE 0

\* expected_q_values = reward_batch + (1 - done_batch) * gamma * next_state_values
\* reward_batch and done_batch have shape [B], next_state_values has shape
\* [B, 1]: broadcasting gives a [B, B] matrix whose entry [i][j] takes the
\* reward and the done flag of sample j and the bootstrap value of sample i.
\* In hundredths.
ExpectedQValues(pol, tgt, batch) ==
  LET nsv == NextStateValues(pol, tgt, batch) IN
  [i \in DOMAIN batch |->
     [j \in DOMAIN batch |->
        100 * batch[j].reward + (1 - Float(batch[j].done)) * gamma * nsv[i]]]

\* current_q_values = self.policy_net(state_batch).gather(1, action_batch.unsqueeze(1))
CurrentQValues(pol, batch) ==
  [i \in DOMAIN batch |-> Forward(pol, batch[i].state)[batch[i].action + 1]]

\* td_errors = (expected_q_values - current_q_values).abs(), shape [B, B],
\* in hundredths
TDErrors(expected, current) ==
  [i \in DOMAIN expected |->
     [j \in DOMAIN expected[i] |-> Abs(expected[i][j] - 100 * current[i])]]

\* self.epsilon = max(self.config.epsilon_end, self.epsilon * self.config.epsilon_decay)
DecayEpsilon(e) == Max(epsilon_end, (e * epsilon_decay) \div 1000)

\* The loss of a step, abstracted to a small set of non-negative values.
LossValues == { 0, 1 }

\* What optimize_model has computed when it reaches the loss expression.
OptimizeLocals(outcome, rtype, value, indices) ==
  LET p == HeldPriorities(priorities, Len(buffer))
      batch == Batch(buffer, indices)
  IN [CallRecord("optimize_model", <<>>, outcome, rtype, value) EXCEPT
        !.batch = batch,
        !.indices = indices,
        !.weights = ISWeights(p, indices),
        !.expected_q_values = ExpectedQValues(policy_net, target_net, batch)]

\* Lines 270-285, reached only when the name F resolves: the gradient update
\* (abstracted: the online parameters become some setting), the priority
\* write-back, the target sync, the epsilon decay, the step increment.
\* update_priorities zips the indices with the ROWS of the [B, B] td_errors
\* matrix; storing a row of length B > 1 into one float32 slot raises
\* ValueError, after the optimizer has already stepped.
OptimizeTail(indices) ==
  LET batch == Batch(buffer, indices)
      td == TDErrors(ExpectedQValues(policy_net, target_net, batch),
                     CurrentQValues(policy_net, batch))
  IN \E theta \in ParamSettings, loss \in LossValues :
       /\ policy_net' = theta
       /\ optimizer' = optimizer + 1
       /\ IF Len(indices) > 1
            THEN /\ call' = OptimizeLocals("ValueError", "", 0, indices)
                 /\ UNCHANGED <<priorities, target_net, epsilon, steps>>
            ELSE /\ priorities' =
                      [priorities EXCEPT ![indices[1]] = td[1][1] * 10000 + 1]
                 /\ target_net' =
                      IF steps % target_update = 0 THEN theta ELSE target_net
                 /\ epsilon' = DecayEpsilon(epsilon)
                 /\ steps' = steps + 1
                 /\ call' = OptimizeLocals("returned", "float", loss, indices)

\* A variant in which the epsilon decay and the step increment precede the
\* loss expression.
OptimizeRaises_AfterAdvance(exc, indices) ==
  /\ call' = OptimizeLocals(exc, "", 0, indices)
  /\ epsilon' = DecayEpsilon(epsilon)
  /\ steps' = steps + 1
  /\ UNCHANGED <<policy_net, target_net, optimizer, priorities>>

\* An exception raised by a statement of lines 251-269 (everything up to and
\* including the loss expression): none of these statements assigns a field
\* of the agent or of the store.
OptimizeRaises(exc, indices) ==
  /\ call' = OptimizeLocals(exc, "", 0, indices)
  /\ UNCHANGED <<agentVars, priorities>>

OptimizeModelCall ==
  /\ IF TooFewTransitions(Len(buffer), batch_size)
       THEN /\ call' = CallRecord("optimize_model", <<>>, "returned", "float", 0)
            /\ UNCHANGED <<agentVars, priorities>>
     ELSE IF Len(buffer) = 0
       THEN /\ call' = CallRecord("optimize_model", <<>>, EmptyBufferException, "", 0)
            /\ UNCHANGED <<agentVars, priorities>>
     ELSE IF Support(HeldPriorities(priorities, Len(buffer))) = {}
       THEN /\ call' = CallRecord("optimize_model", <<>>, "ValueError", "", 0)
            /\ UNCHANGED <<agentVars, priorities>>
     ELSE \E indices \in IndexDraws(HeldPriorities(priorities, Len(buffer)), batch_size) :
            IF ~NameIsBound("F")
              \* F.smooth_l1_loss: NameError, before anything is written
              THEN OptimizeRaises("NameError", indices)
              ELSE OptimizeTail(indices)
  /\ UNCHANGED <<configVars, buffer, position, pushed>>

OptimizeModel == OptimizeModelCall /\ UNCHANGED restVars

\* ------------------------------------------------------ save_model / load_model
\* The five entries load_model reads, in the order it reads them ('config' is
\* written by save_model and never read back).
CheckpointKeys == << "policy_net", "target_net", "optimizer", "epsilon", "steps" >>

\* A file at the path: whether torch.load can read it, which keys its
\* dictionary has, and the value under each.
CheckpointFile(readable, keys, p, t, o, e, st) ==
  [ readable |-> readable, keys |-> keys,
    policy_net |-> p, target_net |-> t, optimizer |-> o, epsilon |-> e, steps |-> st ]

NoFile == CheckpointFile(FALSE, {}, InitialParams, InitialParams, 0, 0, 0)

\* The checkpoint of another agent: other parameters, a later epsilon and step.
OtherParams == CHOOSE theta \in ParamSettings : theta # InitialParams
OtherCheckpoint(keys) ==
  CheckpointFile(TRUE, keys, OtherParams, OtherParams, 1, DecayEpsilon(epsilon_start), 1)

AllKeys == { CheckpointKeys[i] : i \in DOMAIN CheckpointKeys }

\* Files a caller can hand to load_model: what save_model wrote (or nothing),
\* another agent's checkpoint, and that checkpoint with one entry missing.
CheckpointInputs ==
  { checkpoint, NoFile, OtherCheckpoint(AllKeys) }
    \cup { OtherCheckpoint(AllKeys \ {k}) : k \in AllKeys }

\* torch.save({...}, path)
SaveModelBody ==
  /\ checkpoint' = CheckpointFile(TRUE, AllKeys, policy_net, target_net,
                                  optimizer, epsilon, steps)
  /\ call' = CallRecord("save_model", <<>>, "returned", "None", 0)
  /\ UNCHANGED <<configVars, storeVars, agentVars, pushed, rounds, qVars, pongVars, engineVars>>

\* The number of load steps that complete: all five, or those before the
\* first entry the file does not have; none if torch.load itself fails.
LoadedSteps(f) ==
  IF ~f.readable THEN 0
  ELSE IF \A i \in DOMAIN CheckpointKeys : CheckpointKeys[i] \in f.keys
    THEN Len(CheckpointKeys)
  ELSE MinOf({ i \in DOMAIN CheckpointKeys : CheckpointKeys[i] \notin f.keys }) - 1

\* The reads are assignments one after the other inside the try block; the
\* except clause logs and re-raises and restores nothing.
LoadModelBody(f) ==
  LET n == LoadedSteps(f) IN
  /\ policy_net' = IF n >= 1 THEN f.policy_net ELSE policy_net
  /\ target_net' = IF n >= 2 THEN f.target_net ELSE target_net
  /\ optimizer' = IF n >= 3 THEN f.optimizer ELSE optimizer
  /\ epsilon' = IF n >= 4 THEN f.epsilon ELSE epsilon
  /\ steps' = IF n >= 5 THEN f.steps ELSE steps
  /\ call' = IF n = Len(CheckpointKeys)
               THEN CallRecord("load_model", <<>>, "returned", "None", 0)
             ELSE IF ~f.readable
               THEN CallRecord("load_model", <<>>, "FileNotFoundError", "", 0)
             ELSE CallRecord("load_model", <<>>, "KeyError", "", 0)
  /\ UNCHANGED <<configVars, storeVars, pushed, checkpoint, rounds, qVars, pongVars, engineVars>>

\* agent.save_model(path) / agent.load_model(path) on an instance of the class
\* the name DQNAgent is bound to: attribute lookup comes first.
SaveModel ==
  IF "save_model" \notin DQNAgentMethods
    THEN /\ call' = CallRecord("save_model", <<>>, "AttributeError", "", 0)
         /\ UNCHANGED <<restVars, configVars, storeVars, agentVars, pushed>>
    ELSE SaveModelBody

LoadModel(f) ==
  IF "load_model" \notin DQNAgentMethods
    THEN /\ call' = CallRecord("load_model", <<>>, "AttributeError", "", 0)
         /\ UNCHANGED <<restVars, configVars, storeVars, agentVars, pushed>>
    ELSE LoadModelBody(f)

\* ======================================================== src/pong_ai.py
\* ---------------------------------------------------------------- QAgent
\* Q-values and epsilon are kept in units of 1/QOne; ALPHA, GAMMA in
\* hundredths, EPSILON_DECAY in thousandths.
QOne == 10000
STATE_BINS == << 12, 12, 6, 6 >>
\* ACTIONS in the source, a reserved word here
QACTIONS == << 0, 1, 2 >>
ALPHA == 10
GAMMA == 95
EPSILON_START == QOne
EPSILON_MIN == 200
EPSILON_DECAY == 998
SCREEN_WIDTH == 800
SCREEN_HEIGHT == 500
PADDLE_WIDTH == 12
PADDLE_HEIGHT == 100
BALL_SIZE == 18
PADDLE_SPEED == 7
BALL_SPEED == 7

\* int(): truncation towards zero
Trunc(n, d) == IF n >= 0 THEN n \div d ELSE -((-n) \div d)

\* np.zeros(bins + (len(ACTIONS),)).shape
Shape == STATE_BINS \o << Len(QACTIONS) >>

\* numpy's check of a tuple index: no more indices than dimensions, each
\* within -n .. n-1 of its axis; anything else raises IndexError.
IndexOK(idx) ==
  /\ Len(idx) <= Len(Shape)
  /\ \A d \in DOMAIN idx : -Shape[d] <= idx[d] /\ idx[d] < Shape[d]

\* negative indices count from the end of the axis
Wrapped(idx) == [d \in DOMAIN idx |-> IF idx[d] < 0 THEN idx[d] + Shape[d] ELSE idx[d]]

\* The cells q_table[idx] refers to: one cell for a full index, the row over
\* the last axis for an index one short.
Cells(idx) ==
  IF Len(idx) = Len(Shape) THEN { Wrapped(idx) }
  ELSE { Wrapped(idx) \o << a >> : a \in 0 .. (Shape[Len(Shape)] - 1) }

QValue(q, cell) == IF cell \in DOMAIN q THEN q[cell] ELSE 0

\* np.max(self.q_table[new_state])
FutureQ(q, new_state) == MaxOf({ QValue(q, c) : c \in Cells(new_state) })

\* int(np.argmax(self.q_table[state])): position of the first maximum in the
\* flattened selection, 0 for a single cell
QArgMax(q, state) ==
  IF Len(state) = Len(Shape) THEN 0
  ELSE MinOf({ a \in 0 .. (Shape[Len(Shape)] - 1) :
                 \A b \in 0 .. (Shape[Len(Shape)] - 1) :
                   QValue(q, Wrapped(state) \o << b >>)
                     <= QValue(q, Wrapped(state) \o << a >>) })

\* self.alpha * (reward + self.gamma * future_q - old_q)
TDStep_Reversed(reward, future_q, old_q) ==
  Trunc(ALPHA * (100 * old_q - 100 * reward - GAMMA * future_q), 100 * 100)

TDStep(reward, future_q, old_q) ==
  Trunc(ALPHA * (100 * reward + GAMMA * future_q - 100 * old_q), 100 * 100)

\* discretize_state(ball, paddle); positions and velocities in thousandths
Milli == 1000
DiscretizeState(b, paddle_y) ==
  << Trunc(b.x * STATE_BINS[1], SCREEN_WIDTH * Milli),
     Trunc(b.y * STATE_BINS[2], SCREEN_HEIGHT * Milli),
     Trunc((b.vx + BALL_SPEED * Milli) * STATE_BINS[3], 2 * BALL_SPEED * Milli),
     Trunc((b.vy + BALL_SPEED * Milli) * STATE_BINS[4], 2 * BALL_SPEED * Milli),
     Trunc(paddle_y * STATE_BINS[2], SCREEN_HEIGHT * Milli) >>

QCallRecord(op, arg, outcome, value) ==
  [ op |-> op, arg |-> arg, outcome |-> outcome, value |-> value ]

\* QAgent.update(old_state, action, reward, new_state): the outcome and the
\* table it leaves. Line 134 reads q_table[old_state + (action,)], line 135
\* q_table[new_state]; either raises IndexError before anything is written.
UpdateOutcome(q, old_state, action, new_state) ==
  IF ~IndexOK(old_state \o << action >>) THEN "IndexError"
  ELSE IF ~IndexOK(new_state) THEN "IndexError"
  ELSE "returned"

UpdatedTable(q, old_state, action, reward, new_state) ==
  LET written == Cells(old_state \o << action >>)
      future_q == FutureQ(q, new_state)
  IN [ c \in (DOMAIN q) \cup written |->
         IF c \in written
           THEN QValue(q, c) + TDStep(reward, future_q, QValue(q, c))
           ELSE q[c] ]

QAgentUpdate(old_state, action, reward, new_state) ==
  /\ qcall' = QCallRecord("update", << old_state, action, reward, new_state >>,
                          UpdateOutcome(q_table, old_state, action, new_state), 0)
  /\ q_table' = IF UpdateOutcome(q_table, old_state, action, new_state) = "returned"
                  THEN UpdatedTable(q_table, old_state, action, reward, new_state)
                  ELSE q_table
  /\ q_calls' = q_calls + 1
  /\ UNCHANGED <<q_epsilon, last_state, last_action>>

\* QAgent.select_action(state): random.random() < epsilon explores, else the
\* greedy read of the table. random() lies in [0, 1): with epsilon 1.0 the
\* greedy branch cannot be taken, with epsilon 0 the exploring one cannot.
ExploreOutcomes(eps) ==
  IF eps > 0
    THEN { [ outcome |-> "returned", value |-> QACTIONS[a] ] : a \in DOMAIN QACTIONS }
    ELSE {}

GreedyOutcomes(q, eps, state) ==
  IF eps >= QOne THEN {}
  ELSE IF IndexOK(state)
    THEN { [ outcome |-> "returned", value |-> QArgMax(q, state) ] }
  ELSE { [ outcome |-> "IndexError", value |-> 0 ] }

SelectOutcomes(q, eps, state) == ExploreOutcomes(eps) \cup GreedyOutcomes(q, eps, state)

QAgentSelectAction(state) ==
  /\ \E o \in SelectOutcomes(q_table, q_epsilon, state) :
       qcall' = QCallRecord("select_action", << state >>, o.outcome, o.value)
  /\ UNCHANGED <<q_table, q_epsilon, last_state, last_action, q_calls>>

\* max(self.epsilon_min, self.epsilon * self.epsilon_decay)
DecayedEpsilon(e) == Max(EPSILON_MIN, Trunc(e * EPSILON_DECAY, 1000))

QAgentDecayEpsilon ==
  /\ q_epsilon' = DecayedEpsilon(q_epsilon)
  /\ qcall' = QCallRecord("decay_epsilon", <<>>, "returned", 0)
  /\ q_calls' = q_calls + 1
  /\ UNCHANGED <<q_table, last_state, last_action>>

\* QAgent.__init__
InitQAgent ==
  /\ q_table = << >>
  /\ q_epsilon = EPSILON_START
  /\ last_state = << >>
  /\ last_action = 0
  /\ qcall = QCallRecord("__init__", <<>>, "returned", 0)
  /\ q_calls = 0

\* --------------------------------------------------------------- PongGame
\* ELASTICITY, FRICTION, SPIN_FACTOR and the speed-up factor in hundredths.
MaxTicks == 57
ELASTICITY == 95
SPIN_FACTOR == 25
FRICTION == 98
SpeedUp == 108
LeftPaddleX == 30
RightPaddleX == SCREEN_WIDTH - 30 - PADDLE_WIDTH

\* Paddle.move(direction)
PaddleMove(y, direction) ==
  Max(0, Min((SCREEN_HEIGHT - PADDLE_HEIGHT) * Milli,
             y + direction * PADDLE_SPEED * Milli))

PaddleStart == ((SCREEN_HEIGHT \div 2) - (PADDLE_HEIGHT \div 2)) * Milli

\* Ball.reset(): random.choice([-1, 1]) and an angle in [-0.3 pi, 0.3 pi].
\* The serves are the angle 0 and the two extreme angles, in either
\* direction: BALL_SPEED * cos(0.3 pi) = 4.114, BALL_SPEED * sin(0.3 pi) = 5.663.
ServeInputs ==
  { [ vx |-> d * BALL_SPEED * Milli, vy |-> 0 ] : d \in { -1, 1 } }
    \cup { [ vx |-> d * 4114, vy |-> v ] : d \in { -1, 1 }, v \in { -5663, 5663 } }

\* the serve of a game that is not played
NoServe == { [ vx |-> -BALL_SPEED * Milli, vy |-> 0 ] }

BallReset(serve) ==
  [ x |-> ((SCREEN_WIDTH \div 2) - (BALL_SIZE \div 2)) * Milli,
    y |-> ((SCREEN_HEIGHT \div 2) - (BALL_SIZE \div 2)) * Milli,
    vx |-> serve.vx, vy |-> serve.vy ]

\* Ball.move()
BallMove(b) ==
  [ x |-> b.x + b.vx, y |-> b.y + b.vy, vx |-> b.vx,
    vy |-> Trunc(b.vy * FRICTION, 100) ]

\* random.uniform(-SPIN_FACTOR, SPIN_FACTOR), in thousandths
SpinInputs == { -250, 0, 250 }

\* pygame.Rect keeps integer coordinates; colliderect is strict overlap.
RectOf(x, y, w, h) ==
  [ x |-> Trunc(x, Milli), y |-> Trunc(y, Milli), w |-> w, h |-> h ]

CollideRect(r1, r2) ==
  /\ r1.x < r2.x + r2.w
  /\ r1.y < r2.y + r2.h
  /\ r1.x + r1.w > r2.x
  /\ r1.y + r1.h > r2.y

\* One pass of handle_collisions threads a record through its five blocks:
\* the ball, the scores, the agent's table and epsilon, the rewards handed to
\* reward_ai and the states discretize_state returned, and the outcome, which
\* stops being "returned" at the first exception.
\* reward_ai(reward)
RewardAI(g, reward) ==
  LET new_state == DiscretizeState(g.ball, g.right)
      outcome == UpdateOutcome(g.q, g.last_state, g.last_action, new_state)
  IN [ g EXCEPT
         !.rewards = Append(@, reward),
         !.discretized = Append(@, new_state),
         !.outcome = outcome,
         !.q = IF outcome = "returned"
                 THEN UpdatedTable(g.q, g.last_state, g.last_action, reward, new_state)
                 ELSE @,
         !.eps = IF outcome = "returned" THEN DecayedEpsilon(@) ELSE @ ]

\* PongGame.reset()
GameReset(g, serve) ==
  [ g EXCEPT !.left = PaddleStart, !.right = PaddleStart, !.ball = BallReset(serve) ]

HitsWall(b) == b.y <= 0 \/ b.y + BALL_SIZE * Milli >= SCREEN_HEIGHT * Milli

WallBlock(g, spin) ==
  IF HitsWall(g.ball)
    THEN [ g EXCEPT !.ball.vy = Trunc(-(@ * ELASTICITY), 100) + spin ]
    ELSE g

\* offset / (PADDLE_HEIGHT / 2) * BALL_SPEED * SPIN_FACTOR
PaddleSpin(b, paddle_y) ==
  Trunc(((b.y + (BALL_SIZE * Milli) \div 2) - (paddle_y + (PADDLE_HEIGHT * Milli) \div 2))
          * BALL_SPEED * SPIN_FACTOR, (PADDLE_HEIGHT \div 2) * 100)

LeftPaddleBlock(g, ball_rect) ==
  IF CollideRect(ball_rect, RectOf(LeftPaddleX * Milli, g.left, PADDLE_WIDTH, PADDLE_HEIGHT))
    THEN [ g EXCEPT !.ball = [ x |-> (LeftPaddleX + PADDLE_WIDTH + 1) * Milli,
                               y |-> g.ball.y,
                               vx |-> Trunc(Abs(g.ball.vx) * ELASTICITY, 100),
                               vy |-> g.ball.vy + PaddleSpin(g.ball, g.left) ] ]
    ELSE g

RightPaddleBlock(g, ball_rect) ==
  IF CollideRect(ball_rect, RectOf(RightPaddleX * Milli, g.right, PADDLE_WIDTH, PADDLE_HEIGHT))
    THEN RewardAI([ g EXCEPT !.ball = [ x |-> (RightPaddleX - BALL_SIZE - 1) * Milli,
                                        y |-> g.ball.y,
                                        vx |-> -Trunc(Abs(g.ball.vx) * ELASTICITY, 100),
                                        vy |-> g.ball.vy + PaddleSpin(g.ball, g.right) ],
                               !.hit = TRUE ],
                  QOne)
    ELSE g

\* "Ball goes past left paddle (AI scores)"
PastLeftBlock(g, serve) ==
  IF g.outcome = "returned" /\ g.ball.x <= 0
    THEN LET r == RewardAI([ g EXCEPT !.ai_score = @ + 1, !.scored = "ai" ], -2 * QOne)
         IN IF r.outcome = "returned" THEN GameReset(r, serve) ELSE r
    ELSE g

\* "Ball goes past right paddle (Player scores)"
PastRightBlock(g, serve) ==
  IF g.outcome = "returned" /\ g.ball.x + BALL_SIZE * Milli >= SCREEN_WIDTH * Milli
    THEN LET r == RewardAI([ g EXCEPT !.player_score = @ + 1, !.scored = "player" ], 2 * QOne)
         IN IF r.outcome = "returned" THEN GameReset(r, serve) ELSE r
    ELSE g

\* Whether one of the two scoring blocks will run, and with it reset().
Scores(g) ==
  /\ g.outcome = "returned"
  /\ g.ball.x <= 0 \/ g.ball.x + BALL_SIZE * Milli >= SCREEN_WIDTH * Milli

\* The last statement of update: the ball speeds up while the total score is
\* a positive multiple of 5.
SpeedUpBlock(g) ==
  IF /\ g.outcome = "returned"
     /\ g.player_score + g.ai_score > 0
     /\ (g.player_score + g.ai_score) % 5 = 0
    THEN [ g EXCEPT !.ball.vx = Trunc(@ * SpeedUp, 100),
                    !.ball.vy = Trunc(@ * SpeedUp, 100) ]
    ELSE g

\* The action index moves the paddle: 0 up, 1 down, anything else stays.
ActionDirection(a) == IF a = 0 THEN -1 ELSE IF a = 1 THEN 1 ELSE 0

TickRecord(outcome, discretized, rewards, hit, scored) ==
  [ outcome |-> outcome, discretized |-> discretized, rewards |-> rewards,
    hit |-> hit, scored |-> scored ]

\* PongGame.update(player_move), one pass of the game loop of main(). An
\* exception raised inside is caught nowhere: it ends the program with
\* whatever update had assigned up to that point.
PongUpdate(player_move) ==
  /\ phase = "running"
  /\ ticks < MaxTicks
  /\ ticks' = ticks + 1
  /\ \E state \in { DiscretizeState(ball, right_paddle) } :
     \E o \in SelectOutcomes(q_table, q_epsilon, state) :
       IF o.outcome # "returned"
         THEN \* step_ai raised in select_action, after the player's move
              /\ left_paddle' = PaddleMove(left_paddle, player_move)
              /\ phase' = "crashed"
              /\ tick' = TickRecord(o.outcome, << state >>, << >>, FALSE, "none")
              /\ UNCHANGED <<ball, right_paddle, player_score, ai_score, qVars>>
         ELSE \E moved \in
                   { [ ball |-> BallMove(ball),
                       left |-> PaddleMove(left_paddle, player_move),
                       right |-> PaddleMove(right_paddle, ActionDirection(o.value)),
                       player_score |-> player_score, ai_score |-> ai_score,
                       q |-> q_table, eps |-> q_epsilon,
                       last_state |-> state, last_action |-> o.value,
                       rewards |-> << >>, discretized |-> << state >>,
                       hit |-> FALSE, scored |-> "none",
                       outcome |-> "returned" ] } :
              \* handle_collisions, block by block
              \E ball_rect \in { RectOf(moved.ball.x, moved.ball.y, BALL_SIZE, BALL_SIZE) } :
              \E spin \in (IF HitsWall(moved.ball) THEN SpinInputs ELSE { 0 }) :
              \E walled \in { WallBlock(moved, spin) } :
              \E lefted \in { LeftPaddleBlock(walled, ball_rect) } :
              \E righted \in { RightPaddleBlock(lefted, ball_rect) } :
              \E serve \in (IF Scores(righted) THEN ServeInputs ELSE NoServe) :
              \E pastleft \in { PastLeftBlock(righted, serve) } :
              \E pastright \in { PastRightBlock(pastleft, serve) } :
              \E g \in { SpeedUpBlock(pastright) } :
                /\ ball' = g.ball
                /\ left_paddle' = g.left
                /\ right_paddle' = g.right
                /\ player_score' = g.player_score
                /\ ai_score' = g.ai_score
                /\ q_table' = g.q
                /\ q_epsilon' = g.eps
                /\ last_state' = state
                /\ last_action' = o.value
                /\ phase' = IF g.outcome = "returned" THEN "running" ELSE "crashed"
                /\ tick' = TickRecord(g.outcome, g.discretized, g.rewards,
                                      g.hit, g.scored)
                /\ UNCHANGED <<qcall, q_calls>>
  /\ UNCHANGED <<dqnVars, engineVars>>

\* set_difficulty(diff), from the menu loop of main()
DifficultyEpsilon ==
  [ easy |-> (8 * QOne) \div 10, medium |-> (3 * QOne) \div 10, hard |-> (5 * QOne) \div 100 ]

SetDifficulty(diff) ==
  /\ phase = "menu"
  /\ phase' = "running"
  /\ q_table = << >> /\ q_table' = << >>
  /\ q_epsilon' = DifficultyEpsilon[diff]
  /\ UNCHANGED <<last_state, last_action, qcall, q_calls>>
  /\ UNCHANGED <<ball, left_paddle, right_paddle, player_score, ai_score, tick, ticks>>
  /\ UNCHANGED <<dqnVars, engineVars>>

\* PongGame.__init__
InitPongGame(serves) ==
  /\ \E serve \in serves : ball = BallReset(serve)
  /\ left_paddle = PaddleStart
  /\ right_paddle = PaddleStart
  /\ player_score = 0
  /\ ai_score = 0
  /\ phase = "menu"
  /\ tick = TickRecord("returned", << >>, << >>, FALSE, "none")
  /\ ticks = 0

\* ===================================================== src/game/engine.py
\* GameConfig; lengths and speeds in thousandths, speed_increment in hundredths.
MaxFrames == 2
width == 960
height == 600
paddle_width == 16
paddle_height == 100
ball_size == 16
base_speed == 7000
max_speed == 15000
speed_increment == 104

\* np.cos and np.sin of an angle in thousandths of a radian, by their Taylor
\* polynomials (the angles of the engine stay within +-0.8 rad).
Cos(a) ==
  LET a2 == (a * a) \div 1000
  IN 1000 - a2 \div 2 + (a2 * a2) \div 24000

Sin(a) ==
  LET a2 == (a * a) \div 1000
  IN a - Trunc(a * a2, 6000) + Trunc(a * a2 * a2, 120000000)

\* PhysicsEngine.update_ball_position
UpdateBallPosition(st) ==
  IF st.is_paused THEN st.ball_pos
  ELSE << st.ball_pos[1] + st.ball_vel[1], st.ball_pos[2] + st.ball_vel[2] >>

\* PhysicsEngine.check_wall_collision
CheckWallCollision(pos) ==
  pos[2] <= 0 \/ pos[2] + ball_size * Milli >= height * Milli

PaddleXOf(is_left) == IF is_left THEN paddle_width ELSE width - 2 * paddle_width

\* PhysicsEngine.check_paddle_collision
CheckPaddleCollision(pos, paddle_pos, is_left) ==
  /\ pos[1] < (PaddleXOf(is_left) + paddle_width) * Milli
  /\ pos[1] + ball_size * Milli > PaddleXOf(is_left) * Milli
  /\ pos[2] < paddle_pos + config_paddle_height
  /\ pos[2] + ball_size * Milli > paddle_pos

\* angle = (hit_pos - 0.5) * pi / 3, hit_pos = (new_pos[1] - paddle_pos) / paddle_height
DeflectionAngle(pos, paddle_pos) ==
  Trunc(((pos[2] - paddle_pos) - config_paddle_height \div 2) * 1047,
        config_paddle_height)

\* The horizontal velocity after a paddle hit.
DeflectedVx(speed, angle, is_left) ==
  IF is_left THEN -Trunc(speed * Cos(angle), 1000) ELSE Trunc(speed * Cos(angle), 1000)

\* One turn of the loop "for is_left in (True, False)" of update, on the
\* state st and the position new_pos computed so far.
PaddleCollision(g, is_left) ==
  LET paddle_pos == IF is_left THEN g.st.left_paddle_pos ELSE g.st.right_paddle_pos
      angle == DeflectionAngle(g.new_pos, paddle_pos)
      speed == Min(Trunc(g.st.ball_speed * speed_increment, 100), max_speed)
      st2 == [ g.st EXCEPT !.ball_speed = speed,
                           !.ball_vel = << DeflectedVx(speed, angle, is_left),
                                           Trunc(speed * Sin(angle), 1000) >> ]
  IN IF CheckPaddleCollision(g.new_pos, paddle_pos, is_left)
       THEN [ st |-> st2, new_pos |-> UpdateBallPosition(st2),
              hits |-> g.hits \cup { is_left } ]
       ELSE g

\* The speed the ball is served with after a point.
ServeSpeed_Kept(speed) == speed
ServeSpeed(speed) == base_speed

\* GameEngine._reset_ball(serve_left), the angle drawn from [-pi/4, pi/4]
ResetBall(st, serve_left, angle) ==
  [ st EXCEPT
      !.ball_pos = << (width * Milli) \div 2, (height * Milli) \div 2 >>,
      !.ball_speed = ServeSpeed(@),
      !.ball_vel = << IF serve_left THEN -Trunc(base_speed * Cos(angle), 1000)
                                    ELSE Trunc(base_speed * Cos(angle), 1000),
                      Trunc(base_speed * Sin(angle), 1000) >> ]

AngleInputs == { -785, 0, 785 }

AtLeftEdge(pos) == pos[1] <= 0
AtRightEdge(pos) == pos[1] + ball_size * Milli >= width * Milli

ECallRecord(op, arg, new_pos, hits, scored) ==
  [ op |-> op, arg |-> arg, new_pos |-> new_pos, hits |-> hits, scored |-> scored ]

\* The last part of GameEngine.update, the scoring: the state update leaves
\* and the record of the call, one for each angle _reset_ball may draw.
UpdateScoring(g) ==
  { IF AtLeftEdge(g.new_pos)
      THEN [ st |-> ResetBall([ g.st EXCEPT !.ai_score = @ + 1 ], TRUE, angle),
             call |-> ECallRecord("update", << >>, g.new_pos, g.hits, "ai") ]
    ELSE IF AtRightEdge(g.new_pos)
      THEN [ st |-> ResetBall([ g.st EXCEPT !.player_score = @ + 1 ], FALSE, angle),
             call |-> ECallRecord("update", << >>, g.new_pos, g.hits, "player") ]
    ELSE [ st |-> [ g.st EXCEPT !.ball_pos = g.new_pos ],
           call |-> ECallRecord("update", << >>, g.new_pos, g.hits, "none") ] :
    angle \in (IF AtLeftEdge(g.new_pos) \/ AtRightEdge(g.new_pos)
                 THEN AngleInputs ELSE { 0 }) }

\* The paddle loop of GameEngine.update and what follows it, on the state
\* walled that the wall check has left.
UpdatePaddles(walled) ==
  UNION { UNION { UpdateScoring(g) : g \in { PaddleCollision(g1, FALSE) } } :
          g1 \in { PaddleCollision([ st |-> walled,
                                     new_pos |-> UpdateBallPosition(walled),
                                     hits |-> {} ], TRUE) } }

\* GameEngine.update() on the state st0: the states it can leave, each with
\* the record of the call.
UpdateOutcomes(st0) ==
  IF st0.is_paused
    THEN { [ st |-> st0,
             call |-> ECallRecord("update", << >>, st0.ball_pos, {}, "none") ] }
    ELSE UNION { UpdatePaddles(walled) :
                 walled \in { IF CheckWallCollision(UpdateBallPosition(st0))
                                THEN [ st0 EXCEPT !.ball_vel = << @[1], -@[2] >> ]
                                ELSE st0 } }

\* GameEngine.update()
EngineUpdate ==
  /\ frames < MaxFrames
  /\ frames' = frames + 1
  /\ \E out \in UpdateOutcomes(game_state) :
       /\ game_state' = out.st
       /\ ecall' = out.call
  /\ UNCHANGED <<powerVars, dqnVars, qVars, pongVars>>

\* np.clip(new_pos, 0, height - paddle_height)
ClipPaddle_LowerOnly(new_pos) == Max(0, new_pos)
ClipPaddle(new_pos) == Max(0, Min(height * Milli - config_paddle_height, new_pos))

\* GameEngine.move_paddle(is_left, amount)
MovePaddle(is_left, amount) ==
  /\ game_state' = IF is_left
                THEN [ game_state EXCEPT !.left_paddle_pos = ClipPaddle(@ + amount) ]
                ELSE [ game_state EXCEPT !.right_paddle_pos = ClipPaddle(@ + amount) ]
  /\ ecall' = ECallRecord("move_paddle", << is_left, amount >>, game_state.ball_pos, {}, "none")
  /\ UNCHANGED <<frames, powerVars, dqnVars, qVars, pongVars>>

\* The state reset_game builds.
FreshGameState ==
  [ ball_pos |-> << (width * Milli) \div 2, (height * Milli) \div 2 >>,
    ball_vel |-> << base_speed, 0 >>,
    left_paddle_pos |-> (height * Milli) \div 2 - config_paddle_height \div 2,
    right_paddle_pos |-> (height * Milli) \div 2 - config_paddle_height \div 2,
    player_score |-> 0,
    ai_score |-> 0,
    is_paused |-> FALSE,
    ball_speed |-> base_speed ]

\* GameEngine.reset_game()
ResetGame ==
  /\ game_state' = FreshGameState
  /\ ecall' = ECallRecord("reset_game", << >>, FreshGameState.ball_pos, {}, "none")
  /\ UNCHANGED <<frames, powerVars, dqnVars, qVars, pongVars>>

\* GameState is a plain dataclass and the callers of the engine (the tests)
\* assign the ball directly: game.state.ball_pos = ..., game.state.ball_vel = ...
\* Positions: in front of the left paddle, past the right edge, past the left
\* edge, above the top wall, in front of the right paddle, near the top and
\* near the bottom of the field at mid-width.
BallPositions ==
  { << (paddle_width + 5) * Milli, game_state.left_paddle_pos + (paddle_height * Milli) \div 2 >>,
    << (width + 10) * Milli, (height * Milli) \div 2 >>,
    << -10 * Milli, (height * Milli) \div 2 >>,
    << (width * Milli) \div 2, -100 * Milli >>,
    << (width - 2 * paddle_width - ball_size - 5) * Milli,
       game_state.right_paddle_pos + (paddle_height * Milli) \div 2 >>,
    << (width * Milli) \div 2, 10 * Milli >>,
    << (width * Milli) \div 2, (height - 10) * Milli >> }

BallVelocities == { << -5 * Milli, 0 >> }

PlaceBall(pos) ==
  /\ game_state' = [ game_state EXCEPT !.ball_pos = pos ]
  /\ ecall' = ECallRecord("ball_pos", << >>, pos, {}, "none")
  /\ UNCHANGED <<frames, powerVars, dqnVars, qVars, pongVars>>

AimBall(vel) ==
  /\ game_state' = [ game_state EXCEPT !.ball_vel = vel ]
  /\ ecall' = ECallRecord("ball_vel", << >>, game_state.ball_pos, {}, "none")
  /\ UNCHANGED <<frames, powerVars, dqnVars, qVars, pongVars>>

\* ------------------------------ PowerUpManager, GameEngineWithPowerUps
PowerUpTypes == { "speed_boost", "paddle_size", "multi_ball" }

\* PowerUp(type, pos): active = True, duration = 300 frames. applied counts
\* the apply_powerup calls update has made with this object.
PowerUpDuration == 300
PowerUp(type, pos) ==
  [ type |-> type, pos |-> pos, active |-> TRUE, duration |-> PowerUpDuration,
    applied |-> 0 ]

\* spawn_powerup draws the position uniformly from the middle of the field
\* ([0.25, 0.75] of the width, [0.2, 0.8] of the height): its centre and its
\* upper left corner stand for the draws.
SpawnPositions ==
  { << (width * Milli) \div 2, (height * Milli) \div 2 >>,
    << (width * Milli) \div 4, (height * Milli) \div 5 >> }

\* self.active_powerups[str(pos)] = powerup: a new key goes to the end of the
\* dictionary, an existing key keeps its place and gets the new object.
SpawnPowerup(powerups, powerup) ==
  IF \E i \in DOMAIN powerups : powerups[i].pos = powerup.pos
    THEN [ i \in DOMAIN powerups |->
             IF powerups[i].pos = powerup.pos THEN powerup ELSE powerups[i] ]
    ELSE Append(powerups, powerup)

\* PowerUpManager.update: every active power-up loses a frame of duration and
\* goes inactive when none is left.
ManagerUpdate(powerups) ==
  [ i \in DOMAIN powerups |->
      IF ~powerups[i].active THEN powerups[i]
      ELSE [ powerups[i] EXCEPT !.duration = @ - 1,
                                !.active = (powerups[i].duration - 1 > 0) ] ]

PowerUpRadius == 20
Touches(ball_pos, powerup) ==
  /\ powerup.active
  /\ Abs(ball_pos[1] - powerup.pos[1]) < PowerUpRadius * Milli
  /\ Abs(ball_pos[2] - powerup.pos[2]) < PowerUpRadius * Milli

\* PowerUpManager.check_collision: the index of the first active power-up
\* within 20 of the ball on both axes, 0 when there is none.
CheckCollision(powerups, ball_pos) ==
  IF \E i \in DOMAIN powerups : Touches(ball_pos, powerups[i])
    THEN MinOf({ i \in DOMAIN powerups : Touches(ball_pos, powerups[i]) })
    ELSE 0

\* min(self.config.paddle_height * 1.5, self.config.height / 2)
EnlargedPaddle(h) == Min((h * 15) \div 10, (height * Milli) \div 2)

\* GameEngineWithPowerUps.apply_powerup(powerup), on the engine e (the game
\* state, the paddle height of the config, the special-mode flag).
ApplyPowerup(e, type) ==
  IF type = "speed_boost"
    THEN [ e EXCEPT !.st.ball_speed = Min((@ * 15) \div 10, max_speed) ]
  ELSE IF type = "paddle_size"
    THEN [ e EXCEPT !.paddle_height = EnlargedPaddle(@) ]
  ELSE [ e EXCEPT !.special = TRUE ]

\* What GameEngineWithPowerUps.update does after super().update() has left
\* the state st: spawn (np.random.rand() < 0.005), age the power-ups, and
\* apply the one the ball touches.
PowerUpsFinish(st, c) ==
  \E spawn \in BOOLEAN :
  \E type \in (IF spawn THEN PowerUpTypes ELSE { "speed_boost" }) :
  \E pos \in (IF spawn THEN SpawnPositions ELSE { << 0, 0 >> }) :
  \E aged \in { ManagerUpdate(IF spawn
                                THEN SpawnPowerup(active_powerups, PowerUp(type, pos))
                                ELSE active_powerups) } :
  \E hit \in { CheckCollision(aged, st.ball_pos) } :
  \E e \in { IF hit = 0
                THEN [ st |-> st, paddle_height |-> config_paddle_height,
                       special |-> special_mode_active ]
                ELSE ApplyPowerup([ st |-> st, paddle_height |-> config_paddle_height,
                                    special |-> special_mode_active ],
                                  aged[hit].type) } :
    /\ game_state' = e.st
    /\ config_paddle_height' = e.paddle_height
    /\ special_mode_active' = e.special
    /\ active_powerups' =
         IF hit = 0 THEN aged
         ELSE [ aged EXCEPT ![hit].active = FALSE, ![hit].applied = @ + 1 ]
    /\ ecall' = c

\* GameEngineWithPowerUps.update()
PowerUpsUpdate ==
  /\ frames < MaxFrames
  /\ frames' = frames + 1
  /\ \E out \in UpdateOutcomes(game_state) : PowerUpsFinish(out.st, out.call)
  /\ UNCHANGED <<dqnVars, qVars, pongVars>>

\* apply_powerup(powerup) called with a power-up the caller built.
ApplyPowerupCall(type) ==
  \E e \in { ApplyPowerup([ st |-> game_state, paddle_height |-> config_paddle_height,
                             special |-> special_mode_active ], type) } :
    /\ game_state' = e.st
    /\ config_paddle_height' = e.paddle_height
    /\ special_mode_active' = e.special
    /\ ecall' = ECallRecord("apply_powerup", << type >>, game_state.ball_pos, {}, "none")
    /\ UNCHANGED <<frames, active_powerups, dqnVars, qVars, pongVars>>

\* GameEngine.__init__
InitEngine ==
  /\ config_paddle_height = paddle_height * Milli
  /\ active_powerups = << >>
  /\ special_mode_active = FALSE
  /\ game_state = FreshGameState
  /\ ecall = ECallRecord("__init__", << >>, FreshGameState.ball_pos, {}, "none")
  /\ frames = 0

\* ------------------------------------------------------------ the machine
\* DQNAgent.__init__ / PrioritizedReplayBuffer.__init__
InitAgent(capacities) ==
  /\ capacity \in capacities
  /\ buffer = <<>>
  /\ priorities = [i \in 0 .. (capacity - 1) |-> 0]
  /\ position = 0
  /\ policy_net = InitialParams
  /\ target_net = policy_net
  /\ epsilon = epsilon_start
  /\ steps = 0
  /\ call = CallRecord("__init__", <<>>, "returned", "None", 0)
  /\ pushed = <<>>
  /\ optimizer = 0
  /\ checkpoint = NoFile
  /\ rounds = 0

\* src/ai/dqn_agent.py and src/pong_ai.py do not import each other: a run of
\* one leaves the objects of the other as they were constructed.
Init == InitAgent(1 .. MaxCapacity) /\ InitQAgent /\ InitPongGame(NoServe) /\ InitEngine

Next ==
  \/ \E t \in TransitionInputs : Push(t)
  \/ \E B \in 0 .. MaxBatch : Sample(B)
  \/ \E pairs \in UpdateInputs : UpdatePriorities(pairs)
  \/ OptimizeModel
  \/ \E s \in States : SelectAction(s)
  \/ SaveModel
  \/ \E f \in CheckpointInputs : LoadModel(f)

Spec == Init /\ [][Next]_vars

\* The class statement at line 109 is the only definition of save_model and
\* load_model: this specification runs those two bodies on an agent, with the
\* files of CheckpointInputs at the path.
NextFirstDefinition ==
  \/ SaveModelBody
  \/ \E f \in CheckpointInputs : LoadModelBody(f)

SpecFirstDefinition == Init /\ [][NextFirstDefinition]_vars

\* Construction does not look at the configuration: a capacity of 0 builds a
\* buffer too (np.zeros((0,)) is an empty array).
InitAnyCapacity == InitAgent(0 .. MaxCapacity) /\ InitQAgent /\ InitPongGame(NoServe) /\ InitEngine

SpecAnyCapacity == InitAnyCapacity /\ [][Next]_vars

\* test_epsilon_decay: a fresh agent, NumRounds rounds of select_action
\* followed by optimize_model, nothing ever pushed.
NumRounds == 100

TestSelectAction ==
  /\ rounds < NumRounds
  /\ call.op # "select_action"
  /\ \E s \in States : SelectAction(s)

TestOptimizeModel ==
  /\ call.op = "select_action"
  /\ OptimizeModelCall
  /\ rounds' = rounds + 1
  /\ UNCHANGED <<checkpoint, qVars, pongVars, engineVars>>

NextEpsilonDecayTest == TestSelectAction \/ TestOptimizeModel

SpecEpsilonDecayTest == Init /\ [][NextEpsilonDecayTest]_vars

\* ------------------------------------------------- QAgent, called directly
MaxQCalls == 3
MaxRepeats == 1000

\* Indices of the table proper: one bin per entry of STATE_BINS.
TableStates == { << 0, 0, 0, 0 >>, << 11, 11, 5, 5 >> }

\* Balls and paddle positions handed to discretize_state: the serve to the
\* left and to the right with the paddle at its start, a ball near the top
\* left corner with the paddle at the top.
BallInputs ==
  { [ x |-> 391 * Milli, y |-> 241 * Milli, vx |-> -BALL_SPEED * Milli, vy |-> 0 ],
    [ x |-> 391 * Milli, y |-> 241 * Milli, vx |-> BALL_SPEED * Milli, vy |-> 0 ],
    [ x |-> 50 * Milli, y |-> 20 * Milli, vx |-> -4114, vy |-> -5663 ] }
PaddleInputs == { 200 * Milli, 0 }
DiscretizedStates ==
  { DiscretizeState(b, py) : b \in BallInputs, py \in PaddleInputs }

\* The rewards PongGame hands out: 1.0, -2.0, 2.0.
RewardInputs == { QOne, -2 * QOne, 2 * QOne }

QUpdateInputs ==
  { << << 0, 0, 0, 0 >>, 0, QOne, << 0, 0, 0, 0 >> >>,
    << << 0, 0, 0, 0 >>, 2, -2 * QOne, << 11, 11, 5, 5 >> >>,
    << << 11, 11, 5, 5 >>, 1, 2 * QOne, << 0, 0, 0, 0 >> >> }
  \cup { << d, 0, QOne, d >> : d \in DiscretizedStates }

QUpdateCall(u) ==
  /\ q_calls < MaxQCalls
  /\ QAgentUpdate(u[1], u[2], u[3], u[4])
  /\ UNCHANGED <<dqnVars, pongVars, engineVars>>

QSelectActionCall(state) ==
  /\ QAgentSelectAction(state)
  /\ UNCHANGED <<dqnVars, pongVars, engineVars>>

QDecayEpsilonCall ==
  /\ q_calls < MaxQCalls
  /\ QAgentDecayEpsilon
  /\ UNCHANGED <<dqnVars, pongVars, engineVars>>

NextQAgent ==
  \/ \E u \in QUpdateInputs : QUpdateCall(u)
  \/ \E state \in TableStates \cup DiscretizedStates : QSelectActionCall(state)
  \/ QDecayEpsilonCall

InitQ == InitAgent({1}) /\ InitQAgent /\ InitPongGame(NoServe) /\ InitEngine

SpecQAgent == InitQ /\ [][NextQAgent]_vars

\* The same update over and over: reward 1, the next state the state itself.
RepeatedUpdate ==
  /\ q_calls < MaxRepeats
  /\ \E state \in TableStates, a \in DOMAIN QACTIONS :
       /\ qcall.op = "__init__"
            \/ qcall.arg = << state, QACTIONS[a], QOne, state >>
       /\ QAgentUpdate(state, QACTIONS[a], QOne, state)
  /\ UNCHANGED <<dqnVars, pongVars, engineVars>>

SpecRepeatedUpdate == InitQ /\ [][RepeatedUpdate]_vars

\* ------------------------------------------------------- main() of pong_ai
\* get_player_move returns -1, 0 or 1; the player here keeps the paddle moving
\* down, which lets a level serve to the left pass the left paddle.
PlayerMoves == { 1 }
Difficulties == { "medium" }

\* The first serve is level (angle 0), to the left or to the right.
FirstServes == { serve \in ServeInputs : serve.vy = 0 }

InitPong == InitAgent({1}) /\ InitQAgent /\ InitPongGame(FirstServes) /\ InitEngine

NextPong ==
  \/ \E diff \in Difficulties : SetDifficulty(diff)
  \/ \E player_move \in PlayerMoves : PongUpdate(player_move)

SpecPong == InitPong /\ [][NextPong]_vars

\* ------------------------------------------------- GameEngine and its callers
MoveAmounts == { -1000 * Milli, 300 * Milli, 1000 * Milli }

NextEngine ==
  \/ EngineUpdate
  \/ \E is_left \in BOOLEAN, amount \in MoveAmounts : MovePaddle(is_left, amount)
  \/ \E pos \in BallPositions : PlaceBall(pos)
  \/ \E vel \in BallVelocities : AimBall(vel)
  \/ ResetGame

SpecEngine == InitQ /\ [][NextEngine]_vars

\* -------------------------------------- GameEngineWithPowerUps and its callers
NextPowerUps ==
  \/ PowerUpsUpdate
  \/ \E is_left \in BOOLEAN, amount \in MoveAmounts : MovePaddle(is_left, amount)
  \/ \E type \in PowerUpTypes : ApplyPowerupCall(type)

SpecPowerUps == InitQ /\ [][NextPowerUps]_vars

\* ================================================================ claims
HeldIndices == 0 .. (Len(buffer) - 1)

\* C1: after n pushes into a buffer of capacity C the buffer holds min(n, C)
\* transitions, the write cursor is n mod C, and the k-th push sits at index
\* (k - 1) mod C for each of the last min(n, C) pushes.
C1_RingBufferHoldsLastPushes ==
  LET n == Len(pushed) IN
  /\ Len(buffer) = Min(n, capacity)
  /\ position = n % capacity
  /\ \A k \in 1 .. n :
       k > n - Min(n, capacity) => buffer[((k - 1) % capacity) + 1] = pushed[k]

\* C1 witness: capacity + 1 pushes, the last one differing from the first,
\* have evicted the first push from index 0.
C1_Witness ==
  /\ capacity >= 2
  /\ Len(pushed) = capacity + 1
  /\ pushed[1] # pushed[capacity + 1]
  /\ buffer[1] = pushed[capacity + 1]
  /\ \A k \in 2 .. capacity : buffer[k] = pushed[k]

\* C2 (as claimed): an optimize_model call on a store holding at least
\* batch_size transitions returns, and returns a float.
C2_OptimizeReturnsLoss ==
  (call.op = "optimize_model" /\ Len(buffer) >= batch_size)
    => (call.outcome = "returned" /\ call.rtype = "float")

C4_EpsilonDecaysEachStep ==
  [][(call'.op = "optimize_model" /\ Len(buffer) >= batch_size)
       => /\ epsilon' = DecayEpsilon(epsilon)
          /\ (epsilon > epsilon_end => epsilon' < epsilon)
          /\ epsilon' >= epsilon_end]_vars

C6_PushAtMaxPriority ==
  [][(pushed' # pushed)
       => LET maxHeld == IF Len(buffer) = 0 THEN PriorityOne
                         ELSE MaxOf({ priorities[i] : i \in HeldIndices })
          IN /\ priorities'[position] = maxHeld
             /\ buffer'[position + 1] = pushed'[Len(pushed')]
             /\ \A i \in 0 .. (capacity - 1) :
                  i # position =>
                    /\ priorities'[i] = priorities[i]
                    /\ (i \in HeldIndices => buffer'[i + 1] = buffer[i + 1])]_vars

\* C6 witness: a push has overwritten a slot of a full buffer with a priority
\* above 1.0 taken from another slot.
C6_Witness ==
  /\ call.op = "push"
  /\ Len(pushed) > capacity
  /\ capacity >= 2
  /\ priorities[(position + capacity - 1) % capacity] = 2 * PriorityOne

\* C7 (as claimed): on a store holding at least one transition, sample with
\* any batch size B returns B transitions, B indices of held entries and B
\* weights, index-aligned, every weight <= 1.0 and the largest equal to 1.0.
C7_SampleAligned_AnyBatch ==
  (call.op = "sample" /\ Len(buffer) >= 1)
    => /\ call.outcome = "returned"
       /\ Len(call.batch) = call.arg[1]
       /\ Len(call.indices) = call.arg[1]
       /\ Len(call.weights) = call.arg[1]
       /\ \A j \in 1 .. call.arg[1] :
            /\ call.indices[j] \in HeldIndices
            /\ call.batch[j] = buffer[call.indices[j] + 1]
            /\ call.weights[j].num <= call.weights[j].den
       /\ \E j \in 1 .. call.arg[1] : call.weights[j].num = call.weights[j].den

\* C7 (amended): the same for every batch size B >= 1.
C7_SampleAligned ==
  (call.op = "sample" /\ Len(buffer) >= 1 /\ call.arg[1] >= 1)
    => /\ call.outcome = "returned"
       /\ Len(call.batch) = call.arg[1]
       /\ Len(call.indices) = call.arg[1]
       /\ Len(call.weights) = call.arg[1]
       /\ \A j \in 1 .. call.arg[1] :
            /\ call.indices[j] \in HeldIndices
            /\ call.batch[j] = buffer[call.indices[j] + 1]
            /\ call.weights[j].num <= call.weights[j].den
       /\ \E j \in 1 .. call.arg[1] : call.weights[j].num = call.weights[j].den

\* C7 witness: a sample of two distinct held entries of different priority
\* has returned, one weight being 1.0 and the other below it.
C7_Witness ==
  /\ call.op = "sample"
  /\ call.outcome = "returned"
  /\ call.arg[1] = 2
  /\ call.indices[1] # call.indices[2]
  /\ call.weights[1].num = call.weights[1].den
  /\ call.weights[2].num < call.weights[2].den

C9_SelectActionInRange ==
  (call.op = "select_action")
    => (call.outcome = "returned" /\ call.rtype = "int" /\ call.value \in Actions)

\* The Double-Q target of one transition, in hundredths: reward plus, unless
\* the transition is terminal, gamma times the target network's value of the
\* online network's best next action.
DoubleQTarget(t) ==
  100 * t.reward
    + (IF t.done THEN 0
       ELSE gamma * Forward(target_net, t.next_state)
                      [ArgMax(Forward(policy_net, t.next_state)) + 1])

\* C10 (as claimed): every target optimize_model computes for sample i is the
\* Double-Q target of sample i alone; for a terminal sample it is the reward.
C10_TargetPerSample ==
  (call.op = "optimize_model" /\ call.expected_q_values # <<>>)
    => \A i \in DOMAIN call.batch :
         \A j \in DOMAIN call.expected_q_values[i] :
           /\ call.expected_q_values[i][j] = DoubleQTarget(call.batch[i])
           /\ call.batch[i].done
                => call.expected_q_values[i][j] = 100 * call.batch[i].reward

\* C11: save_model returns having written the checkpoint, and a load_model of
\* that checkpoint returns with the agent's epsilon, step counter, online and
\* target parameters equal to those saved.
C11_SaveLoadRoundTrip ==
  /\ call.op = "save_model" => call.outcome = "returned"
  /\ call.op = "load_model" =>
       /\ call.outcome = "returned"
       /\ epsilon = checkpoint.epsilon
       /\ steps = checkpoint.steps
       /\ policy_net = checkpoint.policy_net
       /\ target_net = checkpoint.target_net

C13_NoLatePushFailure ==
  ~(capacity < 1 /\ call.op = "push" /\ call.outcome # "returned")

\* C20: after the NumRounds rounds of test_epsilon_decay epsilon is strictly
\* below its initial value and not below epsilon_end.
C20_EpsilonDecayedAfterRounds ==
  rounds = NumRounds => (epsilon < epsilon_start /\ epsilon >= epsilon_end)

\* C14: an update whose states come from discretize_state returns without
\* error and applies the one-step rule to the entry (old_state, action) and to
\* no other: Q <- Q + alpha * (reward + gamma * max_a' Q(new_state, a') - Q).
C14_UpdateAppliesOneStepRule ==
  [][(/\ q_calls' = q_calls + 1
      /\ qcall'.op = "update"
      /\ qcall'.arg[1] \in DiscretizedStates
      /\ qcall'.arg[4] \in DiscretizedStates)
     => LET cell == qcall'.arg[1] \o << qcall'.arg[2] >>
            future == MaxOf({ QValue(q_table, qcall'.arg[4] \o << QACTIONS[b] >>) :
                                b \in DOMAIN QACTIONS })
        IN /\ qcall'.outcome = "returned"
           /\ QValue(q_table', cell) =
                QValue(q_table, cell)
                  + TDStep(qcall'.arg[3], future, QValue(q_table, cell))
           /\ \A c \in (DOMAIN q_table) \cup (DOMAIN q_table') :
                c # cell => QValue(q_table', c) = QValue(q_table, c)]_vars

\* C15: repeating the identical update (reward 1, next state = state) from a
\* zero table, the entry never decreases, never exceeds 1 / (1 - gamma) = 20,
\* and its distance to 20 shrinks at every update.
QLimit == 20 * QOne
C16_DiscretizedWithinBins ==
  \A k \in DOMAIN tick.discretized :
    LET state == tick.discretized[k]
    IN /\ Len(state) = Len(STATE_BINS)
       /\ \A d \in DOMAIN state : 0 <= state[d] /\ state[d] < STATE_BINS[d]

\* C17: both paddles of the GameEngine stay within [0, height - paddle_height];
\* a move_paddle whose amount would carry the paddle past a bound leaves it
\* exactly at the bound; move_paddle on one paddle leaves the other paddle,
\* the ball and the scores unchanged.
MaxPaddlePos == (height - paddle_height) * Milli
PaddlesInField(st) ==
  /\ 0 <= st.left_paddle_pos /\ st.left_paddle_pos <= MaxPaddlePos
  /\ 0 <= st.right_paddle_pos /\ st.right_paddle_pos <= MaxPaddlePos
Clamped(target) ==
  IF target < 0 THEN 0 ELSE IF target > MaxPaddlePos THEN MaxPaddlePos ELSE target
C17_PaddlesStayInField ==
  [][/\ PaddlesInField(game_state)
     /\ PaddlesInField(game_state')
     /\ ecall'.op = "move_paddle" =>
          /\ game_state'.left_paddle_pos =
               IF ecall'.arg[1]
                 THEN Clamped(game_state.left_paddle_pos + ecall'.arg[2])
                 ELSE game_state.left_paddle_pos
          /\ game_state'.right_paddle_pos =
               IF ecall'.arg[1]
                 THEN game_state.right_paddle_pos
                 ELSE Clamped(game_state.right_paddle_pos + ecall'.arg[2])
          /\ game_state'.ball_pos = game_state.ball_pos
          /\ game_state'.ball_vel = game_state.ball_vel
          /\ game_state'.ball_speed = game_state.ball_speed
          /\ game_state'.player_score = game_state.player_score
          /\ game_state'.ai_score = game_state.ai_score]_vars

C17_Witness ==
  /\ frames >= 1
  /\ ecall.op = "move_paddle"
  /\ ecall.arg = << TRUE, 1000 * Milli >>
  /\ game_state.left_paddle_pos = MaxPaddlePos
  /\ game_state.right_paddle_pos = 0

\* C18: an update whose new ball position reaches the right edge adds exactly
\* 1 to player_score, one that reaches the left edge adds exactly 1 to
\* ai_score; in both cases the other score is unchanged, the ball is at the
\* centre and ball_speed is base_speed again. Otherwise update leaves the
\* scores unchanged. Only reset_game ever lowers a score.
FieldCentre == << (width * Milli) \div 2, (height * Milli) \div 2 >>
C18_ScoringAtEdges ==
  [][/\ (ecall'.op = "update" /\ frames' = frames + 1) =>
          LET new_x == ecall'.new_pos[1]
              left == new_x <= 0
              right == ~left /\ new_x + ball_size * Milli >= width * Milli
          IN /\ right => /\ game_state'.player_score = game_state.player_score + 1
                         /\ game_state'.ai_score = game_state.ai_score
             /\ left => /\ game_state'.ai_score = game_state.ai_score + 1
                        /\ game_state'.player_score = game_state.player_score
             /\ (left \/ right) => /\ game_state'.ball_pos = FieldCentre
                                   /\ game_state'.ball_speed = base_speed
             /\ ~(left \/ right) => /\ game_state'.player_score = game_state.player_score
                                    /\ game_state'.ai_score = game_state.ai_score
     /\ ecall'.op # "reset_game" =>
          /\ game_state'.player_score >= game_state.player_score
          /\ game_state'.ai_score >= game_state.ai_score]_vars

C18_Witness ==
  /\ ecall.op = "update"
  /\ ecall.scored = "ai"
  /\ game_state.ai_score = 1
  /\ game_state.player_score = 1
  /\ game_state.ball_pos = FieldCentre

\* C19: after an update in which a ball moving left collided with the left
\* paddle, the ball's horizontal velocity is positive.
C19_LeftPaddleBouncesBall ==
  [][(/\ ecall'.op = "update"
      /\ frames' = frames + 1
      /\ game_state.ball_vel[1] < 0
      /\ TRUE \in ecall'.hits
      /\ ecall'.scored = "none")
     => game_state'.ball_vel[1] > 0]_vars

\* C21: one update of the GameEngine moves the right paddle toward the ball:
\* with the ball above the paddle the right paddle position decreases or is
\* already 0, with the ball below the paddle it increases or is already
\* height - paddle_height.
BallAbovePaddle(st) == st.ball_pos[2] < st.right_paddle_pos
BallBelowPaddle(st) == st.ball_pos[2] > st.right_paddle_pos + paddle_height * Milli
C21_AIPaddleTracksBall ==
  [][(ecall'.op = "update" /\ frames' = frames + 1) =>
       /\ BallAbovePaddle(game_state) =>
            \/ game_state'.right_paddle_pos < game_state.right_paddle_pos
            \/ game_state'.right_paddle_pos = 0
       /\ BallBelowPaddle(game_state) =>
            \/ game_state'.right_paddle_pos > game_state.right_paddle_pos
            \/ game_state'.right_paddle_pos = MaxPaddlePos]_vars

LastReward == tick.rewards[Len(tick.rewards)]
C24_RewardSigns ==
  /\ tick.scored = "player" => LastReward < 0
  /\ tick.scored = "ai" => (LastReward > 0 /\ LastReward > QOne)

\* C25: in GameEngineWithPowerUps the paddle height never exceeds height / 2,
\* both paddles stay fully inside the field (0 <= pos and pos + paddle_height
\* <= height) in every state, the one right after a paddle_size power-up
\* included, and no power-up is applied more than once or is active after
\* having been applied.
C25_PaddlesInsideWithPowerUps ==
  /\ config_paddle_height <= (height * Milli) \div 2
  /\ 0 <= game_state.left_paddle_pos
  /\ game_state.left_paddle_pos + config_paddle_height <= height * Milli
  /\ 0 <= game_state.right_paddle_pos
  /\ game_state.right_paddle_pos + config_paddle_height <= height * Milli
  /\ \A i \in DOMAIN active_powerups :
       /\ active_powerups[i].applied <= 1
       /\ active_powerups[i].applied = 1 => ~active_powerups[i].active

====
